---- MODULE Spec2Model ----
(***************************************************************************)
(* Document versioning of the LabWeave backend                             *)
(* (backend/src/api/v1/endpoints/documents.py, backend/src/models/         *)
(* document.py): the documents table, the upload directory, and the        *)
(* handlers that create, branch, restore, list and delete versions.        *)
(***************************************************************************)
EXTENDS Integers, Sequences, FiniteSets, TLC

\* ------------------------------------------------------------- bounds
\* Rows the documents table may ever receive (ids 1..MaxDocs).
MaxDocs == 3

\* ---------------------------------------------------------- constants
\* Python None / SQL NULL for the nullable integer columns.
NULL == 0

DocIds == 1..MaxDocs
\* The byte contents an upload may carry.
Contents == {"abc", "def"}
\* File paths: one per row ever inserted.
Paths == 1..MaxDocs
Titles == {"T", "U"}
UploadTitles == {"T"}
ProjectIds == {1}
\* A form without a title field, and the form fields an upload request may
\* carry: title and project_id are Form(...), required, experiment_id is optional.
NoTitle == ""
UploadTitleArgs == UploadTitles \cup {NoTitle}
ProjectIdArgs == ProjectIds \cup {NULL}
ExperimentIds == {NULL, 1}
\* Version numbers a request may name: the ones that can exist and one beyond.
VersionArgs == 1..(MaxDocs + 1)

\* Uploaded file names: <<stem, suffix>>.
FileNames == {<<"test", ".txt">>, <<"test", ".exe">>}

OMICS_FORMATS ==
    {".fastq", ".fq", ".fastq.gz", ".fq.gz", ".fasta", ".fa", ".fna",
     ".fasta.gz", ".sam", ".bam", ".vcf", ".vcf.gz", ".bed", ".gff", ".gtf",
     ".nwk", ".tree", ".nxs", ".tsv", ".csv", ".txt", ".pdf"}

is_valid_file_type(filename) == filename[2] \in OMICS_FORMATS

\* version_comment values: none, the caller's text, or the text restore writes.
NoComment == [kind |-> "none", n |-> 0]
UserComment(k) == [kind |-> "user", n |-> k]
RestoredFrom(version_number) == [kind |-> "restored", n |-> version_number]
Comments == {NoComment, UserComment(1)}

\* SHA-256 of a content (hexdigest, first byte): distinct contents, distinct digests.
Digest(content) == IF content = "abc" THEN "ba" ELSE "cb"

VARIABLES
    docs,      \* the documents table (committed rows): id -> row
    nextId,    \* the next value of the table's id sequence
    files,     \* the upload directory: path -> content
    last,      \* the request that completed last and its response
    versions,  \* the list the last get_document_versions or read_documents returned
    pc,        \* per concurrent request handler: the step it is at
    sess       \* per concurrent request handler: its session's loaded objects

vars == <<docs, nextId, files, last, versions, pc, sess>>

\* A row that stands for "no row" (the None a query returns).
NoRow ==
    [id |-> NULL, title |-> "", file_path |-> NULL, file_hash |-> "",
     version_number |-> 0, is_latest |-> FALSE, parent_document_id |-> NULL,
     version_comment |-> NoComment, project_id |-> NULL, experiment_id |-> NULL]

Rows(db) == {db[i] : i \in DOMAIN db}

\* ------------------------------------------------------------ helpers

\* calculate_file_hash: the digest of the bytes at file_path.
calculate_file_hash(fs, file_path) == Digest(fs[file_path])

\* The timestamped file name of an upload: a path no file has yet.
FreshPaths(fs) == Paths \ DOMAIN fs
FreshPath(fs) == CHOOSE p \in FreshPaths(fs) : \A q \in FreshPaths(fs) : p <= q

\* open(file_path, "wb") + copyfileobj, or shutil.copy2.
WriteFile(fs, file_path, content) ==
    [p \in DOMAIN fs \cup {file_path} |-> IF p = file_path THEN content ELSE fs[p]]

\* os.remove of every path of a set.
RemoveFiles(fs, paths) == [p \in DOMAIN fs \ paths |-> fs[p]]

\* A root_id that is always the id of the addressed row.
RootIdOf_self(document) == document.id

\* root_id = document.parent_document_id if document.parent_document_id else document.id
RootIdOf(document) ==
    IF document.parent_document_id # NULL THEN document.parent_document_id
    ELSE document.id

\* filter((id == root_id) | (parent_document_id == root_id))
VersionsOf(db, root_id) ==
    {d \in Rows(db) : d.id = root_id \/ d.parent_document_id = root_id}

\* check_document_parent: exactly one of project_id, experiment_id is set.
check_document_parent(row) ==
    \/ row.project_id # NULL /\ row.experiment_id = NULL
    \/ row.project_id = NULL /\ row.experiment_id # NULL

\* db.commit() of a session that cleared is_latest on the rows `dirty` and added
\* the row `new`: the UPDATEs must each find their row, the INSERT must satisfy
\* the foreign key on parent_document_id and the table's check constraint.
CommitOk(db, dirty, new) ==
    /\ dirty \subseteq DOMAIN db
    /\ new.parent_document_id = NULL \/ new.parent_document_id \in DOMAIN db
    /\ check_document_parent(new)

Committed(db, dirty, new) ==
    [i \in DOMAIN db \cup {new.id} |->
        IF i = new.id THEN new
        ELSE IF i \in dirty THEN [db[i] EXCEPT !.is_latest = FALSE]
        ELSE db[i]]

\* A session that cleared is_latest on the rows `dirty` and sends the change
\* although its request failed.
RolledBack_flushed(db, dirty) ==
    [i \in DOMAIN db |-> IF i \in dirty THEN [db[i] EXCEPT !.is_latest = FALSE]
                         ELSE db[i]]

\* get_db's db.close() after a request that raised before db.commit(): what the
\* session changed on the rows `dirty` is discarded.
RolledBack(db, dirty) == db

\* What a request answers: the handler, the HTTP status, the id of the row it
\* returns (NULL when none), for a restore the id of the row it copied, and for a
\* delete the number of documents its detail reports.
Response(op, status, id, target) ==
    [op |-> op, status |-> status, id |-> id, target |-> target, count |-> 0]

\* The request handlers that may run at once, and a handler with no request.
Writers == {"w1", "w2"}
Idle == [w \in Writers |-> "idle"]
NoSession == [w \in Writers |-> <<>>]

Init ==
    /\ docs = [i \in {} |-> NoRow]
    /\ nextId = 1
    /\ files = [p \in {} |-> ""]
    /\ last = Response("none", 0, NULL, NULL)
    /\ versions = <<>>
    /\ pc = Idle
    /\ sess = NoSession

\* ------------------------------------------------------ upload_document

\* An uploaded row that is not marked as the latest version.
UploadedRow_not_latest(id, title, file_path, file_hash, project_id, experiment_id) ==
    [id |-> id, title |-> title, file_path |-> file_path, file_hash |-> file_hash,
     version_number |-> 1, is_latest |-> FALSE, parent_document_id |-> NULL,
     version_comment |-> NoComment, project_id |-> project_id,
     experiment_id |-> experiment_id]

\* The row upload_document adds.
UploadedRow(id, title, file_path, file_hash, project_id, experiment_id) ==
    [id |-> id, title |-> title, file_path |-> file_path, file_hash |-> file_hash,
     version_number |-> 1, is_latest |-> TRUE, parent_document_id |-> NULL,
     version_comment |-> NoComment, project_id |-> project_id,
     experiment_id |-> experiment_id]

\* doc_dir / unique_filename of a request that arrives in the same second as an
\* earlier upload of the same file name for the same project and experiment:
\* the timestamp has a resolution of one second, so it is that upload's path.
SameSecondPaths(db, fs, project_id, experiment_id) ==
    {d.file_path : d \in {x \in Rows(db) : /\ x.version_number = 1
                                          /\ x.project_id = project_id
                                          /\ x.experiment_id = experiment_id
                                          /\ x.file_path \in DOMAIN fs}}

\* doc_dir / unique_filename of a request that arrives in a second of its own;
\* NULL when the model has no unused path left.
OwnSecondPaths(fs) == IF FreshPaths(fs) = {} THEN {NULL} ELSE {FreshPath(fs)}

\* upload_document, its file written at file_path.
upload_document_to(file_path, filename, content, title, project_id, experiment_id, saved) ==
    LET fs == WriteFile(files, file_path, content)
        row == UploadedRow(nextId, title, file_path, calculate_file_hash(fs, file_path),
                           project_id, experiment_id)
    IN  /\ versions' = <<>>
        /\ UNCHANGED <<pc, sess>>
        /\ IF title = NoTitle \/ project_id = NULL
           THEN /\ last' = Response("upload", 422, NULL, NULL)
                /\ UNCHANGED <<docs, nextId, files>>
           ELSE IF ~is_valid_file_type(filename)
           THEN /\ last' = Response("upload", 400, NULL, NULL)
                /\ UNCHANGED <<docs, nextId, files>>
           ELSE IF ~saved
           THEN /\ last' = Response("upload", 500, NULL, NULL)
                /\ UNCHANGED <<docs, nextId, files>>
           ELSE /\ file_path \in Paths
                /\ nextId <= MaxDocs
                /\ IF CommitOk(docs, {}, row)
                   THEN /\ docs' = Committed(docs, {}, row)
                        /\ files' = fs
                        /\ nextId' = nextId + 1
                        /\ last' = Response("upload", 200, row.id, NULL)
                   ELSE /\ last' = Response("upload", 500, NULL, NULL)
                        /\ files' = IF file_path \in DOMAIN files THEN fs ELSE files
                        /\ UNCHANGED <<docs, nextId>>

upload_document(filename, content, title, project_id, experiment_id, saved) ==
    \E file_path \in OwnSecondPaths(files) :
        upload_document_to(file_path, filename, content, title, project_id,
                           experiment_id, saved)

\* --------------------------------------------------- upload_new_version

\* filter(id == document_id, is_latest == True).first()
LatestWithId(db, document_id) ==
    {d \in Rows(db) : d.id = document_id /\ d.is_latest}

\* A branch that reuses the version number of the row it branches from.
new_version_reused(current_doc) == current_doc.version_number

\* new_version = current_doc.version_number + 1
new_version(current_doc) == current_doc.version_number + 1

\* parent_document_id = current_doc.parent_document_id or current_doc.id
ParentOf(doc) ==
    IF doc.parent_document_id # NULL THEN doc.parent_document_id ELSE doc.id

\* A new version that keeps the file_hash of the row it branches from.
NewVersionRow_stale_hash(id, current_doc, file_path, file_hash, version_comment) ==
    [id |-> id, title |-> current_doc.title, file_path |-> file_path,
     file_hash |-> current_doc.file_hash, version_number |-> new_version(current_doc),
     is_latest |-> TRUE, parent_document_id |-> ParentOf(current_doc),
     version_comment |-> version_comment, project_id |-> current_doc.project_id,
     experiment_id |-> current_doc.experiment_id]

\* The row upload_new_version adds.
NewVersionRow(id, current_doc, file_path, file_hash, version_comment) ==
    [id |-> id, title |-> current_doc.title, file_path |-> file_path,
     file_hash |-> file_hash, version_number |-> new_version(current_doc),
     is_latest |-> TRUE, parent_document_id |-> ParentOf(current_doc),
     version_comment |-> version_comment, project_id |-> current_doc.project_id,
     experiment_id |-> current_doc.experiment_id]

upload_new_version(document_id, filename, content, version_comment, saved) ==
    LET found == LatestWithId(docs, document_id)
        Resp(status, id) == Response("branch", status, id, NULL)
    IN  /\ versions' = <<>>
        /\ UNCHANGED <<pc, sess>>
        /\ IF found = {}
           THEN /\ last' = Resp(404, NULL)
                /\ UNCHANGED <<docs, nextId, files>>
           ELSE IF ~is_valid_file_type(filename)
           THEN /\ last' = Resp(400, NULL)
                /\ UNCHANGED <<docs, nextId, files>>
           ELSE IF ~saved
           THEN /\ last' = Resp(500, NULL)
                /\ UNCHANGED <<docs, nextId, files>>
           ELSE \E current_doc \in found :
                LET file_path == FreshPath(files)
                    fs == WriteFile(files, file_path, content)
                    new_doc == NewVersionRow(nextId, current_doc, file_path,
                                             calculate_file_hash(fs, file_path),
                                             version_comment)
                IN  /\ FreshPaths(files) # {}
                    /\ nextId <= MaxDocs
                    /\ IF CommitOk(docs, {current_doc.id}, new_doc)
                       THEN /\ docs' = Committed(docs, {current_doc.id}, new_doc)
                            /\ files' = fs
                            /\ nextId' = nextId + 1
                            /\ last' = Resp(200, new_doc.id)
                       ELSE /\ last' = Resp(500, NULL)
                            /\ UNCHANGED <<docs, nextId, files>>

\* ------------------------------------------------- get_document_version

\* filter(id == document_id).first()
WithId(db, document_id) == {d \in Rows(db) : d.id = document_id}

\* A lookup that takes any version of the lineage for the one asked for.
VersionRows_any(db, document, version_number) == VersionsOf(db, RootIdOf(document))

\* filter(((id == root_id) | (parent_document_id == root_id))
\*        & (version_number == version_number)).first()
VersionRows(db, document, version_number) ==
    {d \in VersionsOf(db, RootIdOf(document)) : d.version_number = version_number}

\* ---------------------------------------------- restore_document_version

\* filter(parent_document_id == version_to_restore.parent_document_id,
\*        is_latest == True).first(); None when no row matches.
CurrentLatest(db, version_to_restore) ==
    LET found == {d \in Rows(db) :
                    /\ d.parent_document_id = version_to_restore.parent_document_id
                    /\ d.is_latest}
    IN  IF found = {} THEN {NoRow} ELSE found

\* new_version_number, from current_latest when there is one.
new_version_number(current_latest, version_to_restore) ==
    IF current_latest # NoRow THEN current_latest.version_number + 1
    ELSE version_to_restore.version_number + 1

\* The rows whose is_latest the session cleared.
RestoreDirty(current_latest) ==
    IF current_latest # NoRow THEN {current_latest.id} ELSE {}

\* A restore that copies the file of the current latest version.
RestoreSource_latest(version_to_restore, current_latest) == current_latest.file_path

\* The file shutil.copy2 reads.
RestoreSource(version_to_restore, current_latest) == version_to_restore.file_path

\* A restored row that takes its title from the current latest version.
RestoredRow_from_latest(id, version_to_restore, current_latest, new_file_path, version_number) ==
    [id |-> id, title |-> current_latest.title, file_path |-> new_file_path,
     file_hash |-> version_to_restore.file_hash,
     version_number |-> new_version_number(current_latest, version_to_restore),
     is_latest |-> TRUE, parent_document_id |-> ParentOf(version_to_restore),
     version_comment |-> RestoredFrom(version_number),
     project_id |-> version_to_restore.project_id,
     experiment_id |-> version_to_restore.experiment_id]

\* The row restore_document_version adds.
RestoredRow(id, version_to_restore, current_latest, new_file_path, version_number) ==
    [id |-> id, title |-> version_to_restore.title, file_path |-> new_file_path,
     file_hash |-> version_to_restore.file_hash,
     version_number |-> new_version_number(current_latest, version_to_restore),
     is_latest |-> TRUE, parent_document_id |-> ParentOf(version_to_restore),
     version_comment |-> RestoredFrom(version_number),
     project_id |-> version_to_restore.project_id,
     experiment_id |-> version_to_restore.experiment_id]

restore_document_version(document_id, version_number, copied) ==
    LET Resp(status, id, target) == Response("restore", status, id, target)
    IN  /\ versions' = <<>>
        /\ UNCHANGED <<pc, sess>>
        /\ IF WithId(docs, document_id) = {}
           THEN /\ last' = Resp(404, NULL, NULL)
                /\ UNCHANGED <<docs, nextId, files>>
           ELSE \E document \in WithId(docs, document_id) :
                IF VersionRows(docs, document, version_number) = {}
                THEN /\ last' = Resp(404, NULL, NULL)
                     /\ UNCHANGED <<docs, nextId, files>>
                ELSE \E version_to_restore \in VersionRows(docs, document, version_number) :
                     \E current_latest \in CurrentLatest(docs, version_to_restore) :
                     LET source == RestoreSource(version_to_restore, current_latest)
                         new_file_path == FreshPath(files)
                         restored_doc == RestoredRow(nextId, version_to_restore,
                                                     current_latest, new_file_path,
                                                     version_number)
                         dirty == RestoreDirty(current_latest)
                     IN  IF ~copied \/ source \notin DOMAIN files
                         THEN /\ last' = Resp(500, NULL, version_to_restore.id)
                              /\ docs' = RolledBack(docs, dirty)
                              /\ UNCHANGED <<nextId, files>>
                         ELSE /\ FreshPaths(files) # {}
                              /\ nextId <= MaxDocs
                              /\ IF CommitOk(docs, dirty, restored_doc)
                                 THEN /\ docs' = Committed(docs, dirty, restored_doc)
                                      /\ files' = WriteFile(files, new_file_path,
                                                            files[source])
                                      /\ nextId' = nextId + 1
                                      /\ last' = Resp(200, restored_doc.id,
                                                      version_to_restore.id)
                                 ELSE /\ last' = Resp(500, NULL, version_to_restore.id)
                                      /\ UNCHANGED <<docs, nextId, files>>

\* ------------------------------------------------ get_document_versions

\* order_by(version_number).all(): every ordering of the rows that ascends in
\* version_number (rows of equal version_number come in any order).
OrderedByVersion(rows) ==
    {s \in [1..Cardinality(rows) -> rows] :
        /\ \A i, j \in 1..Cardinality(rows) : i # j => s[i] # s[j]
        /\ \A i, j \in 1..Cardinality(rows) :
              i < j => s[i].version_number <= s[j].version_number}

\* The DocumentVersion response schema of a row.
DocumentVersion(row) ==
    [id |-> row.id, version_number |-> row.version_number,
     is_latest |-> row.is_latest, version_comment |-> row.version_comment,
     file_hash |-> row.file_hash]

get_document_versions(document_id) ==
    /\ UNCHANGED <<docs, nextId, files, pc, sess>>
    /\ IF WithId(docs, document_id) = {}
       THEN /\ last' = Response("versions", 404, NULL, NULL)
            /\ versions' = <<>>
       ELSE \E document \in WithId(docs, document_id) :
            \E listed \in OrderedByVersion(VersionsOf(docs, RootIdOf(document))) :
                /\ last' = Response("versions", 200, NULL, NULL)
                /\ versions' = [i \in DOMAIN listed |-> DocumentVersion(listed[i])]

\* -------------------------------------------------------- read_documents

\* The values of skip and limit a request may carry; 0 and 100 are the defaults.
Skips == {0, 1}
Limits == {1, 100}

\* A listing that ignores latest_only.
LatestOnly_all(rows, latest_only) == rows

\* if latest_only: query.filter(is_latest == True)
LatestOnly(rows, latest_only) ==
    IF latest_only THEN {d \in rows : d.is_latest} ELSE rows

\* The project_id and experiment_id filters, applied when the parameter is given.
Filtered(db, project_id, experiment_id, latest_only) ==
    LatestOnly({d \in Rows(db) :
                  /\ project_id # NULL => d.project_id = project_id
                  /\ experiment_id # NULL => d.experiment_id = experiment_id},
               latest_only)

\* The rows of a query without order_by come in any order.
RECURSIVE AnyOrder(_)
AnyOrder(rows) ==
    IF rows = {} THEN {<<>>}
    ELSE UNION {{<<d>> \o s : s \in AnyOrder(rows \ {d})} : d \in rows}

\* query.offset(skip).limit(limit).all()
Window(rows, skip, limit) ==
    LET n == Cardinality(rows)
        to == IF skip + limit < n THEN skip + limit ELSE n
    IN  {SubSeq(s, skip + 1, to) : s \in AnyOrder(rows)}

\* The Document response schema of a row.
Document(row) == row

read_documents(skip, limit, project_id, experiment_id, latest_only) ==
    /\ UNCHANGED <<docs, nextId, files, pc, sess>>
    /\ \E documents \in Window(Filtered(docs, project_id, experiment_id, latest_only),
                                skip, limit) :
          /\ versions' = [i \in DOMAIN documents |-> Document(documents[i])]
          /\ last' = Response("documents", 200, NULL, NULL)

\* ------------------------------------------------------ delete_document

\* A delete that never looks for the other versions.
documents_to_delete_single(db, document, cascade) == {document}

\* documents_to_delete: every version of the lineage, or the one document.
documents_to_delete(db, document, cascade) ==
    IF cascade THEN VersionsOf(db, RootIdOf(document)) ELSE {document}

\* db.delete of the rows `gone` and db.commit(): the rows go, and a remaining row
\* whose parent_document relationship pointed at a deleted row has its
\* parent_document_id set to NULL by the session (the backref "versions" carries
\* no delete cascade).
Deleted(db, gone) ==
    [i \in DOMAIN db \ {d.id : d \in gone} |->
        IF db[i].parent_document_id \in {d.id : d \in gone}
        THEN [db[i] EXCEPT !.parent_document_id = NULL]
        ELSE db[i]]

\* A delete that skips the rows whose file could not be removed.
deleted_documents_removed_only(gone, failed) ==
    {d \in gone : d.file_path \notin failed}

\* The rows db.delete is called for: it follows the try block around os.remove,
\* so it is reached for every document, also for those whose path is in `failed`.
deleted_documents(gone, failed) == gone

delete_document(document_id, cascade) ==
    LET op == IF cascade THEN "delete_cascade" ELSE "delete"
        Resp(status, count) ==
            [Response(op, status, NULL, NULL) EXCEPT !.count = count]
    IN  /\ versions' = <<>>
        /\ UNCHANGED <<nextId, pc, sess>>
        /\ IF WithId(docs, document_id) = {}
           THEN /\ last' = Resp(404, 0)
                /\ UNCHANGED <<docs, files>>
           ELSE \E document \in WithId(docs, document_id) :
                LET gone == documents_to_delete(docs, document, cascade)
                    paths == {d.file_path : d \in gone} \cap DOMAIN files
                IN  \E failed \in SUBSET paths :
                        /\ files' = RemoveFiles(files, paths \ failed)
                        /\ docs' = Deleted(docs, deleted_documents(gone, failed))
                        /\ last' = Resp(200, Cardinality(gone))

\* ------------------------------------------------------ update_document

update_document(document_id, title) ==
    /\ versions' = <<>>
    /\ UNCHANGED <<nextId, files, pc, sess>>
    /\ IF WithId(docs, document_id) = {}
       THEN /\ last' = Response("update", 404, NULL, NULL)
            /\ UNCHANGED docs
       ELSE /\ docs' = [docs EXCEPT ![document_id].title = title]
            /\ last' = Response("update", 200, document_id, NULL)

\* ---------------------------------- handlers running at the same time
\* Each request has its own session (get_db): what a query loaded stays as it
\* was read, flag changes stay in the session, and db.commit() sends the UPDATE
\* of the changed rows and the INSERT of the added row as one transaction. A
\* handler is split at its queries and at its commit.

Loaded(current, target, content, version_comment, version_number) ==
    [current |-> current, target |-> target, content |-> content,
     version_comment |-> version_comment, version_number |-> version_number]

\* upload_new_version up to its db.commit(): the query for the latest row, the
\* file type check and the saving of the file.
BranchBegin(w, document_id, filename, content, version_comment, saved) ==
    LET found == LatestWithId(docs, document_id)
        Resp(status) == Response("branch", status, NULL, NULL)
    IN  /\ pc[w] = "idle"
        /\ UNCHANGED <<docs, nextId, files, versions>>
        /\ IF found = {}
           THEN last' = Resp(404) /\ UNCHANGED <<pc, sess>>
           ELSE IF ~is_valid_file_type(filename)
           THEN last' = Resp(400) /\ UNCHANGED <<pc, sess>>
           ELSE IF ~saved
           THEN last' = Resp(500) /\ UNCHANGED <<pc, sess>>
           ELSE \E current_doc \in found :
                /\ sess' = [sess EXCEPT ![w] =
                              Loaded(current_doc, NoRow, content, version_comment, 0)]
                /\ pc' = [pc EXCEPT ![w] = "branch_commit"]
                /\ UNCHANGED last

\* upload_new_version's db.commit(): current_doc.is_latest = False and the new row.
BranchCommit(w) ==
    LET current_doc == sess[w].current
        file_path == FreshPath(files)
        fs == WriteFile(files, file_path, sess[w].content)
        new_doc == NewVersionRow(nextId, current_doc, file_path,
                                 calculate_file_hash(fs, file_path),
                                 sess[w].version_comment)
    IN  /\ pc[w] = "branch_commit"
        /\ FreshPaths(files) # {}
        /\ nextId <= MaxDocs
        /\ pc' = [pc EXCEPT ![w] = "idle"]
        /\ sess' = [sess EXCEPT ![w] = <<>>]
        /\ UNCHANGED versions
        /\ IF CommitOk(docs, {current_doc.id}, new_doc)
           THEN /\ docs' = Committed(docs, {current_doc.id}, new_doc)
                /\ files' = fs
                /\ nextId' = nextId + 1
                /\ last' = Response("branch", 200, new_doc.id, NULL)
           ELSE /\ last' = Response("branch", 500, NULL, NULL)
                /\ UNCHANGED <<docs, nextId, files>>

\* restore_document_version's call of get_document_version.
RestoreBegin(w, document_id, version_number) ==
    LET Resp(status) == Response("restore", status, NULL, NULL)
    IN  /\ pc[w] = "idle"
        /\ UNCHANGED <<docs, nextId, files, versions>>
        /\ IF WithId(docs, document_id) = {}
           THEN last' = Resp(404) /\ UNCHANGED <<pc, sess>>
           ELSE \E document \in WithId(docs, document_id) :
                IF VersionRows(docs, document, version_number) = {}
                THEN last' = Resp(404) /\ UNCHANGED <<pc, sess>>
                ELSE \E version_to_restore \in VersionRows(docs, document, version_number) :
                     /\ sess' = [sess EXCEPT ![w] =
                                   Loaded(NoRow, version_to_restore, "", NoComment,
                                          version_number)]
                     /\ pc' = [pc EXCEPT ![w] = "restore_latest"]
                     /\ UNCHANGED last

\* restore_document_version's query for the current latest version.
RestoreLatest(w) ==
    /\ pc[w] = "restore_latest"
    /\ UNCHANGED <<docs, nextId, files, versions, last>>
    /\ \E current_latest \in CurrentLatest(docs, sess[w].target) :
          sess' = [sess EXCEPT ![w].current = current_latest]
    /\ pc' = [pc EXCEPT ![w] = "restore_commit"]

\* restore_document_version from the copy of the file to its db.commit().
RestoreCommit(w, copied) ==
    LET version_to_restore == sess[w].target
        current_latest == sess[w].current
        source == RestoreSource(version_to_restore, current_latest)
        new_file_path == FreshPath(files)
        restored_doc == RestoredRow(nextId, version_to_restore, current_latest,
                                    new_file_path, sess[w].version_number)
        dirty == RestoreDirty(current_latest)
        Resp(status, id) == Response("restore", status, id, version_to_restore.id)
    IN  /\ pc[w] = "restore_commit"
        /\ pc' = [pc EXCEPT ![w] = "idle"]
        /\ sess' = [sess EXCEPT ![w] = <<>>]
        /\ UNCHANGED versions
        /\ IF ~copied \/ source \notin DOMAIN files
           THEN /\ last' = Resp(500, NULL)
                /\ docs' = RolledBack(docs, dirty)
                /\ UNCHANGED <<nextId, files>>
           ELSE /\ FreshPaths(files) # {}
                /\ nextId <= MaxDocs
                /\ IF CommitOk(docs, dirty, restored_doc)
                   THEN /\ docs' = Committed(docs, dirty, restored_doc)
                        /\ files' = WriteFile(files, new_file_path, files[source])
                        /\ nextId' = nextId + 1
                        /\ last' = Resp(200, restored_doc.id)
                   ELSE /\ last' = Resp(500, NULL)
                        /\ UNCHANGED <<docs, nextId, files>>

\* ------------------------------------------------------- specifications

Create ==
    \E filename \in FileNames, content \in Contents, title \in UploadTitleArgs,
       project_id \in ProjectIdArgs, experiment_id \in ExperimentIds,
       saved \in BOOLEAN :
        upload_document(filename, content, title, project_id, experiment_id, saved)

\* An upload in the same second as an earlier upload of the same file name.
CreateSameSecond ==
    \E filename \in FileNames, content \in Contents, title \in UploadTitles,
       project_id \in ProjectIds, experiment_id \in ExperimentIds :
       \E file_path \in SameSecondPaths(docs, files, project_id, experiment_id) :
          upload_document_to(file_path, filename, content, title, project_id,
                             experiment_id, TRUE)

Branch ==
    \E document_id \in DocIds, filename \in FileNames, content \in Contents,
       version_comment \in Comments, saved \in BOOLEAN :
        upload_new_version(document_id, filename, content, version_comment, saved)

Restore ==
    \E document_id \in DocIds, version_number \in VersionArgs, copied \in BOOLEAN :
        restore_document_version(document_id, version_number, copied)

ListVersions == \E document_id \in DocIds : get_document_versions(document_id)

ReadDocuments ==
    \E skip \in Skips, limit \in Limits, project_id \in ProjectIds \cup {NULL},
       experiment_id \in ExperimentIds, latest_only \in BOOLEAN :
        read_documents(skip, limit, project_id, experiment_id, latest_only)

DeleteCascade == \E document_id \in DocIds : delete_document(document_id, TRUE)

DeleteOne == \E document_id \in DocIds : delete_document(document_id, FALSE)

Update == \E document_id \in DocIds, title \in Titles : update_document(document_id, title)

\* Every handler, one request at a time.
Next ==
    \/ Create
    \/ Branch
    \/ Restore
    \/ ListVersions
    \/ DeleteCascade
    \/ DeleteOne
    \/ Update

Spec == Init /\ [][Next]_vars

\* One writer at a time issuing create, branch, restore and cascade delete.
NextVersioning ==
    \/ Create
    \/ Branch
    \/ Restore
    \/ DeleteCascade

SpecVersioning == Init /\ [][NextVersioning]_vars

BranchStep(w) ==
    \/ \E document_id \in DocIds, filename \in FileNames, content \in Contents,
          version_comment \in Comments, saved \in BOOLEAN :
          BranchBegin(w, document_id, filename, content, version_comment, saved)
    \/ BranchCommit(w)

RestoreStep(w) ==
    \/ \E document_id \in DocIds, version_number \in VersionArgs :
          RestoreBegin(w, document_id, version_number)
    \/ RestoreLatest(w)
    \/ \E copied \in BOOLEAN : RestoreCommit(w, copied)

\* Branch requests of two callers, served at the same time.
NextBranchRace ==
    \/ Create
    \/ \E w \in Writers : BranchStep(w)

SpecBranchRace == Init /\ [][NextBranchRace]_vars

\* One writer's branch and restore requests, and a reader listing versions
\* while they run.
NextTornRead ==
    \/ Create
    \/ BranchStep("w1")
    \/ RestoreStep("w1")
    \/ ListVersions

SpecTornRead == Init /\ [][NextTornRead]_vars

\* One caller at a time issuing every request that reads or changes versions,
\* the delete of a single version included.
NextLifecycle ==
    \/ Create
    \/ Branch
    \/ Restore
    \/ ListVersions
    \/ DeleteCascade
    \/ DeleteOne

SpecLifecycle == Init /\ [][NextLifecycle]_vars

\* One caller at a time, some uploads arriving within the same second.
NextIntegrity ==
    \/ Create
    \/ CreateSameSecond
    \/ Branch
    \/ Restore

SpecIntegrity == Init /\ [][NextIntegrity]_vars

\* Requests whose file is of a supported type and is stored without failure.
CreateSaved ==
    \E content \in Contents, title \in UploadTitles, project_id \in ProjectIds :
        upload_document(<<"test", ".txt">>, content, title, project_id, NULL, TRUE)

BranchSaved ==
    \E document_id \in DocIds, content \in Contents, version_comment \in Comments :
        upload_new_version(document_id, <<"test", ".txt">>, content,
                           version_comment, TRUE)

RestoreCopied ==
    \E document_id \in DocIds, version_number \in VersionArgs :
        restore_document_version(document_id, version_number, TRUE)

\* One caller at a time creating, branching and restoring versions.
NextWrites ==
    \/ CreateSaved
    \/ BranchSaved
    \/ RestoreCopied

SpecWrites == Init /\ [][NextWrites]_vars

\* One caller at a time creating, branching and restoring versions and changing
\* their metadata.
NextMetadata ==
    \/ CreateSaved
    \/ BranchSaved
    \/ RestoreCopied
    \/ Update

SpecMetadata == Init /\ [][NextMetadata]_vars

\* A listing of the documents that follows a create or a branch. (A listing
\* changes no row and does not depend on the request before it, so a listing
\* that follows a listing returns nothing that this one cannot.)
ReadDocumentsAfterWrite == last.op # "documents" /\ ReadDocuments

\* A branch without a comment, its file stored without failure.
BranchUncommented ==
    \E document_id \in DocIds, content \in Contents :
        upload_new_version(document_id, <<"test", ".txt">>, content, NoComment, TRUE)

\* One caller at a time creating and branching, and listing the documents.
NextLatestListing ==
    \/ CreateSaved
    \/ BranchUncommented
    \/ ReadDocumentsAfterWrite

SpecLatestListing == Init /\ [][NextLatestListing]_vars

\* One caller at a time creating, branching, listing and deleting.
NextListing ==
    \/ Create
    \/ Branch
    \/ ListVersions
    \/ DeleteCascade
    \/ DeleteOne

SpecListing == Init /\ [][NextListing]_vars


\* ---------------------------------------------------------------- claims

\* A lineage: a root row and every row whose parent_document_id is its id.
RootIds(db) == {d.id : d \in {x \in Rows(db) : x.parent_document_id = NULL}}
Lineage(db, root_id) ==
    {d \in Rows(db) : d.id = root_id \/ d.parent_document_id = root_id}
LatestIn(db, root_id) == {d \in Lineage(db, root_id) : d.is_latest}
LineageOf(db, id) ==
    Lineage(db, IF db[id].parent_document_id = NULL THEN id
                ELSE db[id].parent_document_id)

\* C1: after every completed create, branch, restore or cascade delete, each
\* lineage that has rows has exactly one row with is_latest = TRUE.
C1_SingleLatest ==
    \A r \in RootIds(docs) : Cardinality(LatestIn(docs, r)) = 1

\* C2: the version numbers of a lineage are exactly 1..k, each carried by one row.
C2_ContiguousVersions ==
    \A r \in RootIds(docs) :
        /\ {d.version_number : d \in Lineage(docs, r)} = 1..Cardinality(Lineage(docs, r))
        /\ \A d, e \in Lineage(docs, r) : d.version_number = e.version_number => d = e

\* C3: a branch addressed by the id of a lineage's root, with a supported file
\* that is saved, succeeds whenever some row of the lineage is the latest; it
\* answers 404 only when no row of the lineage is.
C3_BranchByRootId ==
    [][\A document_id \in DocIds, filename \in FileNames, content \in Contents,
          version_comment \in Comments :
          ( /\ upload_new_version(document_id, filename, content, version_comment, TRUE)
            /\ is_valid_file_type(filename)
            /\ document_id \in RootIds(docs)
            /\ LatestIn(docs, document_id) # {} )
          => last'.status = 200]_vars

\* A step that is a successful restore.
RestoreSucceeds == last'.op = "restore" /\ last'.status = 200

\* C4: a successful restore creates a row whose version_number is that of the
\* lineage's latest row plus one, greater than every version_number the lineage
\* had, the root version included as a target.
C4_RestoreNumbering ==
    [][RestoreSucceeds =>
          LET before == LineageOf(docs, last'.target)
              restored == docs'[last'.id]
          IN  /\ \A d \in before : restored.version_number > d.version_number
              /\ \A d \in before :
                    d.is_latest => restored.version_number = d.version_number + 1]_vars

\* C5: after a successful restore the rows that were the lineage's latest are no
\* longer latest, and the new row is the only latest row of the lineage.
C5_RestoreFlipsLatest ==
    [][RestoreSucceeds =>
          LET before == LineageOf(docs, last'.target)
              after == LineageOf(docs', last'.id)
          IN  /\ \A d \in before : d.is_latest => ~docs'[d.id].is_latest
              /\ {d \in after : d.is_latest} = {docs'[last'.id]}]_vars

\* C6: a successful branch on the latest row, of version_number v, returns a new
\* row with version_number v + 1, is_latest = TRUE and the supplied comment; the
\* previously latest row is no longer latest and keeps its version_number.
C6_BranchPostcondition ==
    [][\A document_id \in DocIds, filename \in FileNames, content \in Contents,
          version_comment \in Comments :
          ( /\ upload_new_version(document_id, filename, content, version_comment, TRUE)
            /\ last'.status = 200 )
          => LET previous == docs[document_id]
                 new_doc == docs'[last'.id]
             IN  /\ previous.is_latest
                 /\ last'.id \notin DOMAIN docs
                 /\ new_doc.version_number = previous.version_number + 1
                 /\ new_doc.is_latest
                 /\ new_doc.version_comment = version_comment
                 /\ ~docs'[document_id].is_latest
                 /\ docs'[document_id].version_number = previous.version_number]_vars

\* A branch with a comment has just made version 2 of a lineage.
C6_Witness ==
    /\ last.op = "branch" /\ last.status = 200
    /\ docs[last.id].version_number = 2
    /\ docs[last.id].version_comment = UserComment(1)
    /\ \E d \in LineageOf(docs, last.id) : d.version_number = 1 /\ ~d.is_latest

\* C7: two branch requests served at the same time never leave a lineage with
\* two rows that have is_latest = TRUE.
C7_NoDoubleLatest ==
    \A r \in RootIds(docs) : Cardinality(LatestIn(docs, r)) <= 1

\* C8: two writers served at the same time never commit two rows of a lineage
\* with the same version_number.
C8_NoVersionCollision ==
    \A r \in RootIds(docs) :
        \A d, e \in Lineage(docs, r) : d.version_number = e.version_number => d = e

\* C9: a reader that lists a lineage's versions while one writer branches or
\* restores sees exactly one row with is_latest = TRUE, never zero or two.
C9_NoTornRead ==
    (last.op = "versions" /\ last.status = 200)
        => Cardinality({i \in DOMAIN versions : versions[i].is_latest}) = 1

\* C10: after a successful restore of version n, the new row's stored content is
\* the content of the version n row it copied and its file_hash is that row's
\* file_hash; the copied row's content and file_hash are unchanged.
C10_RestoreRoundTrip ==
    [][\A document_id \in DocIds, version_number \in VersionArgs :
          ( /\ restore_document_version(document_id, version_number, TRUE)
            /\ last'.status = 200 )
          => LET target == docs[last'.target]
                 restored == docs'[last'.id]
             IN  /\ target \in LineageOf(docs, document_id)
                 /\ target.version_number = version_number
                 /\ last'.id \notin DOMAIN docs
                 /\ files'[restored.file_path] = files[target.file_path]
                 /\ restored.file_hash = target.file_hash
                 /\ docs'[target.id].file_path = target.file_path
                 /\ files'[target.file_path] = files[target.file_path]
                 /\ docs'[target.id].file_hash = target.file_hash]_vars

\* A restore has just copied a version whose content differs from the content
\* of another version of its lineage.
C10_Witness ==
    /\ last.op = "restore" /\ last.status = 200
    /\ files[docs[last.id].file_path] = files[docs[last.target].file_path]
    /\ \E d \in LineageOf(docs, last.id) :
          files[d.file_path] # files[docs[last.id].file_path]

\* C11: a delete with cascade, addressed by the id of any version of a lineage,
\* removes every row of the lineage and reports as many documents as the lineage
\* had versions; the ids it removed never come back, and get_document_versions
\* addressed by an id that has no row answers 404.
C11_CascadeDelete ==
    [][/\ \A document_id \in DOMAIN docs :
             delete_document(document_id, TRUE)
             => /\ last'.status = 200
                /\ last'.count = Cardinality(LineageOf(docs, document_id))
                /\ \A d \in LineageOf(docs, document_id) : d.id \notin DOMAIN docs'
       /\ \A i \in DocIds : (i < nextId /\ i \notin DOMAIN docs) => i \notin DOMAIN docs'
       /\ \A document_id \in DocIds \ DOMAIN docs :
             get_document_versions(document_id)
             => last'.status = 404 /\ versions' = <<>>]_vars

\* A cascade delete has just removed a lineage of three versions.
C11_Witness ==
    /\ last.op = "delete_cascade" /\ last.status = 200
    /\ last.count = 3
    /\ docs = [i \in {} |-> NoRow]

\* C12: a restore addressed by an id that has no row, or asking for a
\* version_number that no row of the addressed lineage has, answers 404 and
\* leaves every row, every is_latest flag and every stored file as it was.
C12_RestoreMissingVersion ==
    [][\A document_id \in DocIds, version_number \in VersionArgs, copied \in BOOLEAN :
          ( /\ restore_document_version(document_id, version_number, copied)
            /\ \/ document_id \notin DOMAIN docs
               \/ \A d \in LineageOf(docs, document_id) :
                     d.version_number # version_number )
          => /\ last'.status = 404
             /\ docs' = docs
             /\ files' = files
             /\ nextId' = nextId]_vars

\* A restore has just been refused while every id had a row and some lineage
\* had two versions: the version asked for was missing.
C12_Witness ==
    /\ last.op = "restore" /\ last.status = 404
    /\ DOMAIN docs = DocIds
    /\ \E r \in RootIds(docs) : Cardinality(Lineage(docs, r)) = 2

\* C13: a restore addressed to a lineage none of whose rows has is_latest = TRUE
\* answers 404 and adds no row, even when the version asked for exists.
C13_RestoreWithoutLatest ==
    [][\A document_id \in DOMAIN docs, version_number \in VersionArgs,
          copied \in BOOLEAN :
          ( /\ restore_document_version(document_id, version_number, copied)
            /\ \A d \in LineageOf(docs, document_id) : ~d.is_latest )
          => /\ last'.status = 404
             /\ docs' = docs]_vars

\* C14: a restore whose target row's stored file no longer has the digest the
\* row records in file_hash answers with an error and commits nothing: no new
\* row, no is_latest flag changed.
C14_RestoreIntegrity ==
    [][( /\ last'.op = "restore"
         /\ last'.target \in DOMAIN docs
         /\ docs[last'.target].file_path \in DOMAIN files
         /\ calculate_file_hash(files, docs[last'.target].file_path)
               # docs[last'.target].file_hash )
       => /\ last'.status = 500
          /\ docs' = docs]_vars

\* C15: a successful upload_document adds exactly one row, with version_number 1,
\* is_latest = TRUE, no parent_document_id, the digest of the uploaded content as
\* its file_hash and no version_comment; every row that existed is unchanged.
C15_CreatePostcondition ==
    [][\A file_path \in Paths, filename \in FileNames, content \in Contents,
          title \in UploadTitles, project_id \in ProjectIds,
          experiment_id \in ExperimentIds :
          ( /\ upload_document_to(file_path, filename, content, title, project_id,
                                  experiment_id, TRUE)
            /\ last'.status = 200 )
          => /\ last'.id \notin DOMAIN docs
             /\ DOMAIN docs' = DOMAIN docs \cup {last'.id}
             /\ docs'[last'.id].version_number = 1
             /\ docs'[last'.id].is_latest
             /\ docs'[last'.id].parent_document_id = NULL
             /\ docs'[last'.id].file_hash = Digest(content)
             /\ docs'[last'.id].file_hash # NoRow.file_hash
             /\ docs'[last'.id].version_comment = NoComment
             /\ \A i \in DOMAIN docs : docs'[i] = docs[i]]_vars

\* An upload has just added a row to a table that held a lineage of two versions.
C15_Witness ==
    /\ last.op = "upload" /\ last.status = 200
    /\ docs[last.id].version_number = 1 /\ docs[last.id].is_latest
    /\ \E r \in RootIds(docs) : r # last.id /\ Cardinality(Lineage(docs, r)) = 2

\* C16: when saving the file fails in upload_document or upload_new_version, or
\* copying it fails in restore_document_version, the request answers 500 and the
\* table is as it was: no row added, and every row that was the latest still is.
C16_StorageFailure ==
    [][/\ \A filename \in FileNames, content \in Contents, title \in UploadTitles,
             project_id \in ProjectIds, experiment_id \in ExperimentIds :
             ( /\ upload_document(filename, content, title, project_id,
                                  experiment_id, FALSE)
               /\ is_valid_file_type(filename) )
             => last'.status = 500 /\ docs' = docs
       /\ \A document_id \in DocIds, filename \in FileNames, content \in Contents,
             version_comment \in Comments :
             ( /\ upload_new_version(document_id, filename, content,
                                     version_comment, FALSE)
               /\ is_valid_file_type(filename)
               /\ LatestWithId(docs, document_id) # {} )
             => /\ last'.status = 500 /\ docs' = docs
                /\ docs'[document_id].is_latest
       /\ \A document_id \in DocIds, version_number \in VersionArgs :
             ( /\ restore_document_version(document_id, version_number, FALSE)
               /\ last'.target # NULL )
             => /\ last'.status = 500
                /\ DOMAIN docs' = DOMAIN docs
                /\ \A i \in DOMAIN docs : docs'[i] = docs[i]]_vars

\* A restore has just failed to copy the file of version 2 of a lineage whose
\* latest row, which its session had marked as no longer latest, is version 3.
C16_Witness ==
    /\ last.op = "restore" /\ last.status = 500
    /\ last.target \in DOMAIN docs
    /\ docs[last.target].version_number = 2
    /\ \E d \in LineageOf(docs, last.target) :
          /\ d.is_latest /\ d.version_number = 3
          /\ d \in CurrentLatest(docs, docs[last.target])

\* C17: get_document_versions addressed by the id of any row returns every row
\* of that row's lineage, the root and the other versions, and no row of another
\* lineage, in ascending order of version_number; addressed by an id that has no
\* row it answers 404.
C17_ListVersions ==
    [][\A document_id \in DocIds :
          get_document_versions(document_id)
          => IF document_id \in DOMAIN docs
             THEN /\ last'.status = 200
                  /\ Len(versions') = Cardinality(LineageOf(docs, document_id))
                  /\ {versions'[i].id : i \in DOMAIN versions'}
                        = {d.id : d \in LineageOf(docs, document_id)}
                  /\ \A i \in DOMAIN versions' :
                        versions'[i] = DocumentVersion(docs[versions'[i].id])
                  /\ \A i, j \in DOMAIN versions' :
                        i < j => versions'[i].version_number
                                    <= versions'[j].version_number
             ELSE /\ last'.status = 404
                  /\ versions' = <<>>]_vars

\* A listing has just returned versions 1 and 2 of a lineage, in that order,
\* while the table held a row of another lineage.
C17_Witness ==
    /\ last.op = "versions" /\ last.status = 200
    /\ Len(versions) = 2
    /\ versions[1].version_number = 1 /\ versions[2].version_number = 2
    /\ docs[versions[2].id].parent_document_id = versions[1].id
    /\ \E d \in Rows(docs) : d.id \notin {versions[1].id, versions[2].id}

\* C18: the latest pointer of a lineage only moves forward: no step lowers the
\* version_number of the row marked is_latest, no step marks as latest a row that
\* existed and was not, and after a successful branch or restore every latest row
\* of the lineage has a greater version_number than the rows that were latest.
C18_LatestMovesForward ==
    [][/\ \A r \in RootIds(docs) \cap RootIds(docs') :
             \A d \in LatestIn(docs, r), e \in LatestIn(docs', r) :
                e.version_number >= d.version_number
       /\ \A i \in DOMAIN docs \cap DOMAIN docs' :
             docs'[i].is_latest => docs[i].is_latest
       /\ (last'.op \in {"branch", "restore"} /\ last'.status = 200)
             => \A d \in LatestIn(docs, RootIdOf(docs'[last'.id])),
                   e \in LatestIn(docs', RootIdOf(docs'[last'.id])) :
                   e.version_number > d.version_number]_vars

\* C19: in every state a row has no parent_document_id exactly when its
\* version_number is 1, and the parent_document_id of every other row is the id
\* of an existing row that is a root of version 1.
C19_FlatLineage ==
    \A d \in Rows(docs) :
        /\ (d.parent_document_id = NULL) <=> (d.version_number = 1)
        /\ d.parent_document_id # NULL
              => /\ d.parent_document_id \in DOMAIN docs
                 /\ docs[d.parent_document_id].parent_document_id = NULL
                 /\ docs[d.parent_document_id].version_number = 1

\* C20: a delete without cascade removes exactly the row whose id was given and
\* leaves every other row as it was in every field, also when the deleted row is
\* the root of its lineage or its latest version.
C20_SingleDeleteFrame ==
    [][\A document_id \in DOMAIN docs :
          delete_document(document_id, FALSE)
          => /\ last'.status = 200
             /\ DOMAIN docs' = DOMAIN docs \ {document_id}
             /\ \A i \in DOMAIN docs' : docs'[i] = docs[i]]_vars

\* C21: a delete without cascade of a row that is marked latest is either
\* refused, changing nothing, or leaves no lineage that still has rows without a
\* row marked is_latest.
C21_SingleDeleteKeepsLatest ==
    [][\A document_id \in DOMAIN docs :
          ( /\ delete_document(document_id, FALSE)
            /\ docs[document_id].is_latest )
          => \/ last'.status # 200 /\ docs' = docs
             \/ \A r \in RootIds(docs') : LatestIn(docs', r) # {}]_vars

\* C22: the row a successful restore of version n creates has the title and the
\* project and experiment of the version n row it copied, not those of the row
\* that was the latest, and its version_comment is "Restored from version n".
C22_RestoreMetadata ==
    [][\A document_id \in DocIds, version_number \in VersionArgs :
          ( /\ restore_document_version(document_id, version_number, TRUE)
            /\ last'.status = 200 )
          => LET target == docs[last'.target]
                 restored == docs'[last'.id]
             IN  /\ target.version_number = version_number
                 /\ restored.title = target.title
                 /\ restored.project_id = target.project_id
                 /\ restored.experiment_id = target.experiment_id
                 /\ restored.version_comment = RestoredFrom(version_number)]_vars

\* A restore has just copied a version whose title differs from the title of
\* a later version of its lineage.
C22_Witness ==
    /\ last.op = "restore" /\ last.status = 200
    /\ docs[last.id].title = docs[last.target].title
    /\ docs[last.id].version_comment = RestoredFrom(docs[last.target].version_number)
    /\ \E d \in LineageOf(docs, last.id) :
          /\ d.id \notin {last.id, last.target}
          /\ d.version_number > docs[last.target].version_number
          /\ d.title # docs[last.id].title

\* C23: the row a successful branch creates has the title and the project and
\* experiment that the addressed latest row had when the request was made, and
\* its file_hash is the digest of the content that came with the request.
C23_BranchMetadata ==
    [][\A document_id \in DocIds, filename \in FileNames, content \in Contents,
          version_comment \in Comments :
          ( /\ upload_new_version(document_id, filename, content, version_comment, TRUE)
            /\ last'.status = 200 )
          => LET previous == docs[document_id]
                 new_doc == docs'[last'.id]
             IN  /\ previous.is_latest
                 /\ new_doc.title = previous.title
                 /\ new_doc.project_id = previous.project_id
                 /\ new_doc.experiment_id = previous.experiment_id
                 /\ new_doc.file_hash = Digest(content)
                 /\ files'[new_doc.file_path] = content]_vars

\* A branch has just made a version of a row whose title had been changed and
\* whose content differs from the new content.
C23_Witness ==
    /\ last.op = "branch" /\ last.status = 200
    /\ docs[last.id].title = "U"
    /\ \E d \in LineageOf(docs, last.id) :
          /\ d.version_number = docs[last.id].version_number - 1
          /\ d.title = "U"
          /\ d.file_hash # docs[last.id].file_hash

\* C24: a cascade delete during which the file of one or more versions could not
\* be removed still deletes every row of the lineage and reports the full count;
\* no other row changes, and the files that remain are as they were.
C24_CascadeDeleteBlobFailure ==
    [][\A document_id \in DOMAIN docs :
          ( /\ delete_document(document_id, TRUE)
            /\ \E d \in LineageOf(docs, document_id) : d.file_path \in DOMAIN files' )
          => /\ last'.status = 200
             /\ last'.count = Cardinality(LineageOf(docs, document_id))
             /\ DOMAIN docs'
                  = DOMAIN docs \ {d.id : d \in LineageOf(docs, document_id)}
             /\ \A i \in DOMAIN docs' : docs'[i] = docs[i]
             /\ \A p \in DOMAIN files' : p \in DOMAIN files /\ files'[p] = files[p]]_vars

\* A cascade delete has just removed a lineage of two versions and left the
\* file of one of them behind.
C24_Witness ==
    /\ last.op = "delete_cascade" /\ last.status = 200
    /\ last.count = 2
    /\ docs = [i \in {} |-> NoRow]
    /\ Cardinality(DOMAIN files) = 1

\* The ids of the rows of a lineage with the greatest version_number.
Highest(db, root_id) ==
    {d.id : d \in {x \in Lineage(db, root_id) :
                     \A y \in Lineage(db, root_id) :
                        y.version_number <= x.version_number}}

\* C25: after creates and branches, read_documents without filters returns, with
\* latest_only, only rows with is_latest = TRUE and, when the window holds them
\* all, exactly one row per lineage, its highest-numbered version; without
\* latest_only it returns every row; skip and limit cut the window.
C25_LatestOnlyListing ==
    [][\A skip \in Skips, limit \in Limits, latest_only \in BOOLEAN :
          read_documents(skip, limit, NULL, NULL, latest_only)
          => LET returned == {versions'[i].id : i \in DOMAIN versions'}
                 total == IF latest_only THEN Cardinality(RootIds(docs))
                          ELSE Cardinality(DOMAIN docs)
                 rest == IF total > skip THEN total - skip ELSE 0
             IN  /\ last'.status = 200
                 /\ docs' = docs
                 /\ Cardinality(returned) = Len(versions')
                 /\ Len(versions') = IF limit < rest THEN limit ELSE rest
                 /\ \A i \in DOMAIN versions' : versions'[i] = docs[versions'[i].id]
                 /\ latest_only => \A i \in DOMAIN versions' : versions'[i].is_latest
                 /\ latest_only
                       => returned \subseteq UNION {Highest(docs, r) : r \in RootIds(docs)}
                 /\ (latest_only /\ skip = 0 /\ limit >= total)
                       => \A r \in RootIds(docs) :
                             /\ Cardinality(Highest(docs, r)) = 1
                             /\ Highest(docs, r) \subseteq returned
                 /\ (~latest_only /\ skip = 0 /\ limit >= total)
                       => returned = DOMAIN docs]_vars

\* A listing with latest_only has just returned the two latest rows of a table
\* of three rows in two lineages.
C25_Witness ==
    /\ last.op = "documents" /\ last.status = 200
    /\ Len(versions) = 2
    /\ \A i \in DOMAIN versions : versions[i].is_latest
    /\ Cardinality(DOMAIN docs) = 3
    /\ \E i \in DOMAIN versions : versions[i].version_number = 2

\* C26: an upload without a title, or with neither a project nor an experiment,
\* is refused as invalid and adds no row; an upload with a title, a supported
\* file that is stored, and a project, an experiment or both commits a row of
\* version 1.
C26_CreateValidation ==
    [][\A content \in Contents, title \in UploadTitleArgs,
          project_id \in ProjectIdArgs, experiment_id \in ExperimentIds :
          upload_document(<<"test", ".txt">>, content, title, project_id,
                          experiment_id, TRUE)
          => IF title = NoTitle \/ (project_id = NULL /\ experiment_id = NULL)
             THEN /\ last'.status = 422
                  /\ docs' = docs
             ELSE /\ last'.status = 200
                  /\ last'.id \notin DOMAIN docs
                  /\ last'.id \in DOMAIN docs'
                  /\ docs'[last'.id].version_number = 1]_vars

\* C27: no step changes the id, the version_number or the file_hash of a row
\* that exists before and after it; of a row's version fields a step changes
\* only is_latest, and only from TRUE to FALSE.
C27_RowImmutability ==
    [][\A i \in DOMAIN docs \cap DOMAIN docs' :
          /\ docs'[i].id = docs[i].id
          /\ docs'[i].version_number = docs[i].version_number
          /\ docs'[i].file_hash = docs[i].file_hash
          /\ docs'[i].parent_document_id = docs[i].parent_document_id
          /\ docs'[i].version_comment = docs[i].version_comment
          /\ docs'[i].is_latest => docs[i].is_latest]_vars

\* C28: get_document_versions changes no row and no file, and a call that
\* follows a successful call for the same lineage, with no other request between
\* them, returns the same list in the same order.
C28_ListVersionsRepeatable ==
    [][\A document_id \in DocIds :
          get_document_versions(document_id)
          => /\ docs' = docs
             /\ files' = files
             /\ ( /\ last.op = "versions" /\ last.status = 200
                  /\ document_id \in {versions[i].id : i \in DOMAIN versions} )
                => versions' = versions]_vars

\* C29: a successful branch or restore changes no row outside the lineage of
\* the row it adds, and a delete neither removes nor changes a row outside the
\* lineage of the row it was addressed to.
C29_CrossLineageIsolation ==
    [][/\ (last'.op \in {"branch", "restore"} /\ last'.status = 200)
          => \A i \in DOMAIN docs :
                docs[i] \notin Lineage(docs, RootIdOf(docs'[last'.id]))
                => docs'[i] = docs[i]
       /\ \A document_id \in DOMAIN docs, cascade \in BOOLEAN :
             delete_document(document_id, cascade)
             => \A i \in DOMAIN docs :
                   docs[i] \notin LineageOf(docs, document_id)
                   => i \in DOMAIN docs' /\ docs'[i] = docs[i]]_vars

\* C30: in every state reached by creates, branches and restores, a row marked
\* is_latest has a greater version_number than every other row of its lineage.
C30_LatestIsMaximum ==
    \A r \in RootIds(docs) :
        \A d \in LatestIn(docs, r) :
            \A e \in Lineage(docs, r) \ {d} : e.version_number < d.version_number

====
